---- MODULE Spec2Model ----
(***************************************************************************)
(* Recipe Explorer backend (backend/src/api): the relational store         *)
(* (users, recipes, favorites join table) and the request handlers of      *)
(* main.py.  The handlers are plain def routes, which the framework runs   *)
(* on thread-pool workers: every handler is a worker's sequence of steps,  *)
(* one step per database round-trip, and steps of different workers        *)
(* interleave.  Text values are sequences of one-character strings, so     *)
(* that LIKE matching, lower-casing and emptiness are computed.            *)
(***************************************************************************)
EXTENDS Bags, FiniteSets, Integers, Sequences, TLC

VARIABLES recipes, users, favorites, req, resp, responder, procs, assigned, registered

vars == <<recipes, users, favorites, req, resp, responder, procs, assigned, registered>>

(***************************************************************************)
(* Bounds of the model                                                     *)
(***************************************************************************)
MaxRecipes == 2
MaxTitleLen == 1
MaxQueryLen == 1
MaxSalt == 2
MaxWorkers == 2

(***************************************************************************)
(* Text                                                                    *)
(***************************************************************************)
\* Python None for an Optional[str]: a value no text over Chars equals
None == <<"None">>

Chars == {"a", "A", "_", "%"}

CatChars == {"d", "D"}

StrUpTo(alphabet, n) == UNION {[1..k -> alphabet] : k \in 0..n}

\* Python truthiness of an Optional[str]: None and "" are falsy
Truthy(s) == s # None /\ s # <<>>

\* SQL lower(): ASCII letters only
LowerChar(c) == IF c = "A" THEN "a" ELSE IF c = "D" THEN "d" ELSE c

Lower(s) == [i \in 1..Len(s) |-> LowerChar(s[i])]

Drop(s, n) == SubSeq(s, n + 1, Len(s))

\* SQLite LIKE: % matches any run of characters, _ matches exactly one
\* character, any other character matches itself ignoring ASCII case
RECURSIVE Like(_, _)
Like(s, pat) ==
    IF pat = <<>> THEN s = <<>>
    ELSE IF Head(pat) = "%"
         THEN \E k \in 0..Len(s) : Like(Drop(s, k), Tail(pat))
    ELSE IF s = <<>> THEN FALSE
    ELSE IF Head(pat) = "_" THEN Like(Tail(s), Tail(pat))
    ELSE LowerChar(Head(s)) = LowerChar(Head(pat)) /\ Like(Tail(s), Tail(pat))

\* Column.ilike(pattern) as the SQLite dialect renders it:
\* lower(column) LIKE lower(pattern)
ILike(s, pat) == Like(Lower(s), Lower(pat))

\* f"%{q}%"
SearchPattern(q) == <<"%">> \o q \o <<"%">>

(***************************************************************************)
(* Tables                                                                  *)
(***************************************************************************)
SetMax(S) == CHOOSE x \in S : \A y \in S : y <= x

\* INTEGER PRIMARY KEY of SQLite: one more than the largest id in the table
NextId(table) == IF table = {} THEN 1 ELSE SetMax({row.id : row \in table}) + 1

\* Query.first() returned None: no row matched
NoRow(rows) == rows = {}

\* Query.first() when a row matched (ids and usernames match one row at most)
First(rows) == CHOOSE row \in rows : TRUE

\* Recipe(**recipe.dict()) once flushed: the submitted fields plus the id
RecipeRow(id, fields) ==
    [id |-> id, title |-> fields.title, description |-> fields.description,
     ingredients |-> fields.ingredients, instructions |-> fields.instructions,
     image_url |-> fields.image_url, category |-> fields.category]

\* a response schema that leaves the image reference out
RecipeRead_NoImage(row) ==
    [id |-> row.id, title |-> row.title, description |-> row.description,
     ingredients |-> row.ingredients, instructions |-> row.instructions,
     image_url |-> None, category |-> row.category]

\* response_model=RecipeRead
RecipeRead(row) ==
    [id |-> row.id, title |-> row.title, description |-> row.description,
     ingredients |-> row.ingredients, instructions |-> row.instructions,
     image_url |-> row.image_url, category |-> row.category]

\* order_by(Recipe.id.desc()).all()
RECURSIVE OrderByIdDesc(_)
OrderByIdDesc(rows) ==
    IF rows = {} THEN <<>>
    ELSE LET top == CHOOSE row \in rows : \A other \in rows : other.id <= row.id
         IN  <<top>> \o OrderByIdDesc(rows \ {top})

\* the thread-pool workers that run the handlers
Procs == 1..MaxWorkers

\* a worker between requests
Idle == [pc |-> "idle"]

Init ==
    /\ recipes = {}
    /\ users = {}
    /\ favorites = EmptyBag
    /\ req = [op |-> "none"]
    /\ resp = [status |-> 0]
    /\ responder = 0
    /\ procs = [p \in Procs |-> Idle]
    /\ assigned = <<>>
    /\ registered = <<>>

\* the step ends worker p's request: the response goes out, the session closes
Answer(p, request, response) ==
    /\ req' = request
    /\ resp' = response
    /\ responder' = p
    /\ procs' = [procs EXCEPT ![p] = Idle]

\* the step leaves worker p inside its handler, at the next round-trip
Goto(p, state) ==
    /\ procs' = [procs EXCEPT ![p] = state]
    /\ responder' = 0
    /\ UNCHANGED <<req, resp>>

UserByName(username) == {u \in users : u.username = username}

UserById(user_id) == {u \in users : u.id = user_id}

RecipeById(recipe_id) == {r \in recipes : r.id = recipe_id}

(***************************************************************************)
(* Recipe catalog handlers                                                 *)
(***************************************************************************)
\* create_recipe line 117-119: INSERT and commit
create_recipe_commit(p, fields) ==
    /\ procs[p] = Idle
    /\ Cardinality(recipes) < MaxRecipes
    /\ recipes' = recipes \cup {RecipeRow(NextId(recipes), fields)}
    /\ assigned' = assigned @@ (NextId(recipes) :> fields)
    /\ Goto(p, [pc |-> "create_refresh", id |-> NextId(recipes), fields |-> fields])
    /\ UNCHANGED <<users, favorites, registered>>

\* create_recipe line 120-121: db.refresh re-reads the row, then the answer
create_recipe_refresh(p) ==
    /\ procs[p].pc = "create_refresh"
    /\ Answer(p, [op |-> "create_recipe", fields |-> procs[p].fields],
              [status |-> 201,
               body |-> RecipeRead(First(RecipeById(procs[p].id)))])
    /\ UNCHANGED <<recipes, users, favorites, assigned, registered>>

get_recipe(p, recipe_id) ==
    /\ procs[p] = Idle
    /\ Answer(p, [op |-> "get_recipe", recipe_id |-> recipe_id],
              IF NoRow(RecipeById(recipe_id))
              THEN [status |-> 404, detail |-> "Recipe not found"]
              ELSE [status |-> 200, body |-> RecipeRead(First(RecipeById(recipe_id)))])
    /\ UNCHANGED <<recipes, users, favorites, assigned, registered>>

\* the rows the query of list_or_search_recipes selects
SearchRows(table, q, category) ==
    {row \in table :
        /\ Truthy(q) => ILike(row.title, SearchPattern(q))
        /\ Truthy(category) => row.category = category}

list_or_search_recipes(p, q, category) ==
    /\ procs[p] = Idle
    /\ Answer(p, [op |-> "list_or_search_recipes", q |-> q, category |-> category],
              [status |-> 200,
               body |-> [i \in 1..Cardinality(SearchRows(recipes, q, category)) |->
                           RecipeRead(OrderByIdDesc(SearchRows(recipes, q, category))[i])]])
    /\ UNCHANGED <<recipes, users, favorites, assigned, registered>>

(***************************************************************************)
(* User accounts                                                           *)
(***************************************************************************)
\* pwd_context.hash: a salted one-way digest, never the plaintext; the salt
\* is drawn afresh by every call
get_password_hash(password, salt) ==
    [scheme |-> "bcrypt", salt |-> salt, digest |-> <<salt, password>>]

\* a verification that compares the salt and not the digest
verify_password_SaltOnly(plain_password, hashed_password) ==
    get_password_hash(plain_password, hashed_password.salt).salt
        = hashed_password.salt

\* pwd_context.verify: re-hash the candidate under the stored salt
verify_password(plain_password, hashed_password) ==
    get_password_hash(plain_password, hashed_password.salt).digest
        = hashed_password.digest

\* response_model=UserRead
UserRead(row) == [id |-> row.id, username |-> row.username]

\* the user authenticate_user returns, as a set: empty for None
authenticate_user(username, password) ==
    LET found == UserByName(username)
    IN  IF NoRow(found) \/ ~verify_password(password, First(found).hashed_password)
        THEN {}
        ELSE found

\* a users table without the unique index
UsernameTaken_NoIndex(table, username) == FALSE

\* users.username is unique=True: the INSERT of a taken name raises
\* IntegrityError
UsernameTaken(table, username) == \E u \in table : u.username = username

InternalServerError == [status |-> 500, detail |-> "Internal Server Error"]

RegisterRequest(p) ==
    [op |-> "register_user", username |-> procs[p].username,
     password |-> procs[p].password]

\* register_user line 132-134: the existence check
register_user_query(p, username, password) ==
    /\ procs[p] = Idle
    /\ IF ~NoRow(UserByName(username))
       THEN Answer(p, [op |-> "register_user", username |-> username,
                       password |-> password],
                   [status |-> 400, detail |-> "Username already registered"])
       ELSE Goto(p, [pc |-> "register_commit", username |-> username,
                     password |-> password])
    /\ UNCHANGED <<recipes, users, favorites, assigned, registered>>

\* register_user line 135-138: hash, INSERT, commit; an IntegrityError of
\* the commit is not caught and becomes the framework's 500
register_user_commit(p, salt) ==
    /\ procs[p].pc = "register_commit"
    /\ IF UsernameTaken(users, procs[p].username)
       THEN /\ Answer(p, RegisterRequest(p), InternalServerError)
            /\ UNCHANGED <<users, registered>>
       ELSE /\ users' = users \cup
                   {[id |-> NextId(users), username |-> procs[p].username,
                     hashed_password |-> get_password_hash(procs[p].password, salt)]}
            /\ registered' = registered @@ (procs[p].username :> procs[p].password)
            /\ Goto(p, [pc |-> "register_refresh", id |-> NextId(users),
                        username |-> procs[p].username,
                        password |-> procs[p].password])
    /\ UNCHANGED <<recipes, favorites, assigned>>

\* register_user line 139-140: db.refresh re-reads the row, then the answer
register_user_refresh(p) ==
    /\ procs[p].pc = "register_refresh"
    /\ Answer(p, RegisterRequest(p),
              [status |-> 200, body |-> UserRead(First(UserById(procs[p].id)))])
    /\ UNCHANGED <<recipes, users, favorites, assigned, registered>>

login(p, username, password) ==
    /\ procs[p] = Idle
    /\ Answer(p, [op |-> "login", username |-> username, password |-> password],
              IF NoRow(authenticate_user(username, password))
              THEN [status |-> 401, detail |-> "Incorrect username or password"]
              ELSE [status |-> 200,
                    body |-> [access_token |->
                                <<First(authenticate_user(username, password)).username,
                                  "-token-demo">>,
                              token_type |-> "bearer"]])
    /\ UNCHANGED <<recipes, users, favorites, assigned, registered>>

(***************************************************************************)
(* Favorites                                                               *)
(***************************************************************************)
\* a load that reads the join table with its two columns exchanged
LoadFavorites_Swapped(user_id) ==
    {r \in recipes : CopiesIn(<<r.id, user_id>>, favorites) > 0}

\* user.favorites: the lazy load joins the favorites rows of the user with
\* recipes and yields every recipe object once
LoadFavorites(user_id) ==
    {r \in recipes : CopiesIn(<<user_id, r.id>>, favorites) > 0}

\* a handler without the membership test
InFavorites_Never(user_id, recipe_id) == FALSE

\* recipe in user.favorites
InFavorites(user_id, recipe_id) ==
    \E r \in LoadFavorites(user_id) : r.id = recipe_id

\* a favorites table with a composite unique key, the duplicate dropped
InsertFavorite_Unique(fav, user_id, recipe_id) ==
    IF CopiesIn(<<user_id, recipe_id>>, fav) > 0
    THEN fav
    ELSE fav (+) SetToBag({<<user_id, recipe_id>>})

\* flush of user.favorites.append(recipe): INSERT of one row, which the
\* favorites table accepts whatever rows it holds (no key, no unique index)
InsertFavorite(fav, user_id, recipe_id) ==
    fav (+) SetToBag({<<user_id, recipe_id>>})

\* flush of user.favorites.remove(recipe):
\* DELETE FROM favorites WHERE user_id = ? AND recipe_id = ?
DeleteFavorite(fav, user_id, recipe_id) ==
    [pair \in DOMAIN fav \ {<<user_id, recipe_id>>} |-> fav[pair]]

\* rows the DELETE matched; the unit of work expects exactly one and raises
\* StaleDataError otherwise, rolling the transaction back
DeleteRowcount(fav, user_id, recipe_id) == CopiesIn(<<user_id, recipe_id>>, fav)

\* a 404 test that wants both lookups empty
Missing_Both(user_found, recipe_found) == ~user_found /\ ~recipe_found

\* if not user or not recipe
Missing(user_found, recipe_found) == ~user_found \/ ~recipe_found

NotFoundUserOrRecipe == [status |-> 404, detail |-> "User or Recipe not found"]

Message(text) == [status |-> 200, body |-> [message |-> text]]

FavRequest(p) ==
    [op |-> procs[p].op, recipe_id |-> procs[p].recipe_id, user_id |-> procs[p].user_id]

\* line 172 / 192: user = db.query(User).filter(User.id == user_id).first()
favorites_query_user(p, op, recipe_id, user_id) ==
    /\ procs[p] = Idle
    /\ Goto(p, [pc |-> "query_recipe", op |-> op, recipe_id |-> recipe_id,
                user_id |-> user_id, user |-> ~NoRow(UserById(user_id)),
                recipe |-> FALSE])
    /\ UNCHANGED <<recipes, users, favorites, assigned, registered>>

\* line 173 / 193: recipe = db.query(Recipe).filter(Recipe.id == recipe_id).first()
favorites_query_recipe(p) ==
    /\ procs[p].pc = "query_recipe"
    /\ Goto(p, [procs[p] EXCEPT !.pc = "check",
                                !.recipe = ~NoRow(RecipeById(procs[p].recipe_id))])
    /\ UNCHANGED <<recipes, users, favorites, assigned, registered>>

\* add_to_favorites line 174-178: the 404 test, the load of user.favorites,
\* the membership test and the append to the loaded collection
add_to_favorites_check(p) ==
    /\ procs[p].pc = "check"
    /\ procs[p].op = "add_to_favorites"
    /\ IF Missing(procs[p].user, procs[p].recipe)
       THEN Answer(p, FavRequest(p), NotFoundUserOrRecipe)
       ELSE IF InFavorites(procs[p].user_id, procs[p].recipe_id)
       THEN Answer(p, FavRequest(p), Message("Already favorited"))
       ELSE Goto(p, [procs[p] EXCEPT !.pc = "add_commit"])
    /\ UNCHANGED <<recipes, users, favorites, assigned, registered>>

\* add_to_favorites line 179-180: db.commit() flushes the appended row
add_to_favorites_commit(p) ==
    /\ procs[p].pc = "add_commit"
    /\ favorites' = InsertFavorite(favorites, procs[p].user_id, procs[p].recipe_id)
    /\ Answer(p, FavRequest(p), Message("Recipe added to favorites"))
    /\ UNCHANGED <<recipes, users, assigned, registered>>

\* remove_from_favorites line 194-197, 200
remove_from_favorites_check(p) ==
    /\ procs[p].pc = "check"
    /\ procs[p].op = "remove_from_favorites"
    /\ IF Missing(procs[p].user, procs[p].recipe)
       THEN Answer(p, FavRequest(p), NotFoundUserOrRecipe)
       ELSE IF InFavorites(procs[p].user_id, procs[p].recipe_id)
       THEN Goto(p, [procs[p] EXCEPT !.pc = "remove_commit"])
       ELSE Answer(p, FavRequest(p), Message("Recipe not in favorites"))
    /\ UNCHANGED <<recipes, users, favorites, assigned, registered>>

\* remove_from_favorites line 198-199: db.commit() flushes the DELETE; the
\* StaleDataError of a DELETE that did not match one row becomes a 500
remove_from_favorites_commit(p) ==
    /\ procs[p].pc = "remove_commit"
    /\ IF DeleteRowcount(favorites, procs[p].user_id, procs[p].recipe_id) = 1
       THEN /\ favorites' = DeleteFavorite(favorites, procs[p].user_id, procs[p].recipe_id)
            /\ Answer(p, FavRequest(p), Message("Recipe removed from favorites"))
       ELSE /\ Answer(p, FavRequest(p), InternalServerError)
            /\ UNCHANGED favorites
    /\ UNCHANGED <<recipes, users, assigned, registered>>

\* get_favorites line 208-210
get_favorites_query(p, user_id) ==
    /\ procs[p] = Idle
    /\ IF NoRow(UserById(user_id))
       THEN Answer(p, [op |-> "get_favorites", user_id |-> user_id],
                   [status |-> 404, detail |-> "User not found"])
       ELSE Goto(p, [pc |-> "load_favorites", user_id |-> user_id])
    /\ UNCHANGED <<recipes, users, favorites, assigned, registered>>

\* get_favorites line 211: user.favorites is loaded when it is returned
get_favorites_load(p) ==
    /\ procs[p].pc = "load_favorites"
    /\ Answer(p, [op |-> "get_favorites", user_id |-> procs[p].user_id],
              [status |-> 200,
               body |-> {RecipeRead(r) : r \in LoadFavorites(procs[p].user_id)}])
    /\ UNCHANGED <<recipes, users, favorites, assigned, registered>>

(***************************************************************************)
(* Requests the clients send, and the specifications                       *)
(***************************************************************************)
Titles == StrUpTo(Chars, MaxTitleLen)

Categories == {None} \cup StrUpTo(CatChars, 1)

Queries == {None} \cup StrUpTo(Chars, MaxQueryLen)

SearchFields(t, c) ==
    [title |-> t, description |-> None, ingredients |-> None,
     instructions |-> None, image_url |-> None, category |-> c]

SearchStep(p) ==
    \/ \E t \in Titles, c \in Categories : create_recipe_commit(p, SearchFields(t, c))
    \/ create_recipe_refresh(p)
    \/ \E q \in Queries, c \in Categories : list_or_search_recipes(p, q, c)

NextSearch == \E p \in Procs : SearchStep(p)

\* clients that create recipes and search them
SpecSearch == Init /\ [][NextSearch]_vars

\* ids a request can name: the assigned ones, 0 and one past the last
ProbeIds == 0..(MaxRecipes + 1)

PlainFields == SearchFields(<<"a">>, None)

\* the plain recipe, the recipe with every field set, and one recipe for
\* each field that differs from the plain one in that field alone
CatalogFields ==
    {PlainFields,
     [PlainFields EXCEPT !.title = <<"A">>],
     [PlainFields EXCEPT !.description = <<"x">>],
     [PlainFields EXCEPT !.ingredients = <<"x">>],
     [PlainFields EXCEPT !.instructions = <<"x">>],
     [PlainFields EXCEPT !.image_url = <<"x">>],
     [PlainFields EXCEPT !.category = <<"d">>],
     [title |-> <<"A">>, description |-> <<"x">>, ingredients |-> <<"a">>,
      instructions |-> <<"A">>, image_url |-> <<"_">>, category |-> <<"D">>]}

CatalogStep(p) ==
    \/ \E fields \in CatalogFields : create_recipe_commit(p, fields)
    \/ create_recipe_refresh(p)
    \/ \E id \in ProbeIds : get_recipe(p, id)

NextCatalog == \E p \in Procs : CatalogStep(p)

\* clients that create recipes and fetch them by id
SpecCatalog == Init /\ [][NextCatalog]_vars

Usernames == {"alice", "bob"}

Passwords == {"pw1", "pw2"}

Salts == 1..MaxSalt

AccountsStep(p) ==
    \/ \E u \in Usernames, pw \in Passwords : register_user_query(p, u, pw)
    \/ \E salt \in Salts : register_user_commit(p, salt)
    \/ register_user_refresh(p)
    \/ \E u \in Usernames, pw \in Passwords : login(p, u, pw)

NextAccounts == \E p \in Procs : AccountsStep(p)

\* clients that register and log in
SpecAccounts == Init /\ [][NextAccounts]_vars

ProbeUserIds == 1..(Cardinality(Usernames) + 1)

ProbeRecipeIds == 1..(MaxRecipes + 1)

\* the steps of a worker serving clients that create a recipe, register
\* under the given names and favorite the given recipes for the given users
FavoritesStep(p, names, user_ids, recipe_ids) ==
    \/ create_recipe_commit(p, PlainFields)
    \/ create_recipe_refresh(p)
    \/ \E u \in names : register_user_query(p, u, "pw1")
    \/ register_user_commit(p, 1)
    \/ register_user_refresh(p)
    \/ \E r \in recipe_ids, u \in user_ids :
          favorites_query_user(p, "add_to_favorites", r, u)
    \/ \E r \in recipe_ids, u \in user_ids :
          favorites_query_user(p, "remove_from_favorites", r, u)
    \/ favorites_query_recipe(p)
    \/ add_to_favorites_check(p)
    \/ add_to_favorites_commit(p)
    \/ remove_from_favorites_check(p)
    \/ remove_from_favorites_commit(p)
    \/ \E u \in user_ids : get_favorites_query(p, u)
    \/ get_favorites_load(p)

\* every client names the first user and one of the first two recipes
Next == \E p \in Procs : FavoritesStep(p, {"alice"}, {1}, {1, 2})

\* the workers' steps interleaved at the database round-trips
Spec == Init /\ [][Next]_vars

\* no other request is in progress
Alone(p) == \A q \in Procs \ {p} : procs[q] = Idle

NextSerial ==
    \E p \in Procs :
        Alone(p) /\ FavoritesStep(p, Usernames, ProbeUserIds, ProbeRecipeIds)

\* clients that send a request only after the previous one was answered
SpecSerial == Init /\ [][NextSerial]_vars

(***************************************************************************)
(* Claims                                                                  *)
(***************************************************************************)
\* worker p takes the step
Steps(p) == procs'[p] # procs[p] \/ (responder' = p /\ vars' # vars)

\* the step sends the answer to a request of the given kind
Answers(op) == responder' # 0 /\ req'.op = op /\ vars' # vars

UserExists(user_id) == \E u \in users : u.id = user_id

RecipeExists(recipe_id) == \E r \in recipes : r.id = recipe_id

Pair(p) == <<procs[p].user_id, procs[p].recipe_id>>

OthersKept(pair) ==
    \A other \in BagToSet(favorites) \cup BagToSet(favorites') :
        other # pair => CopiesIn(other, favorites') = CopiesIn(other, favorites)

\* C1: when every request is answered before the next one starts, the
\* favorites table holds every (user, recipe) pair at most once.
C1_PairAtMostOnce ==
    \A pair \in BagToSet(favorites) : CopiesIn(pair, favorites) = 1

C1_Witness ==
    /\ req.op = "add_to_favorites"
    /\ resp = Message("Already favorited")
    /\ Cardinality(BagToSet(favorites)) >= 2
    /\ Cardinality(users) = 2

\* C2: an add request that finds the recipe among the favorites of the
\* existing user answers "Already favorited", is no error, and writes no
\* favorite of any user.
C2_AddIsIdempotent ==
    [][\A p \in Procs :
         /\ Steps(p)
         /\ procs[p].pc = "check"
         /\ procs[p].op = "add_to_favorites"
         /\ procs[p].user /\ procs[p].recipe
         /\ CopiesIn(Pair(p), favorites) >= 1
         => /\ responder' = p
            /\ req' = [op |-> "add_to_favorites", recipe_id |-> procs[p].recipe_id,
                       user_id |-> procs[p].user_id]
            /\ resp' = Message("Already favorited")
            /\ favorites' = favorites]_vars

C2_Witness ==
    /\ responder # 0
    /\ req.op = "add_to_favorites"
    /\ resp = Message("Already favorited")
    /\ CopiesIn(<<req.user_id, req.recipe_id>>, favorites) = 1
    /\ BagCardinality(favorites) = 2
    /\ \E q \in Procs : procs[q].pc = "add_commit"

\* C3: for an existing user and recipe, a remove request that finds the
\* recipe among the user's favorites deletes exactly that association and
\* reports removal, and one that does not find it answers "Recipe not in
\* favorites" and changes nothing.
C3_RemoveExactlyThatPair ==
    [][\A p \in Procs :
         /\ /\ Steps(p)
            /\ procs[p].pc = "remove_commit"
            => /\ responder' = p
               /\ resp' = Message("Recipe removed from favorites")
               /\ CopiesIn(Pair(p), favorites') = 0
               /\ OthersKept(Pair(p))
         /\ /\ Steps(p)
            /\ procs[p].pc = "check"
            /\ procs[p].op = "remove_from_favorites"
            /\ procs[p].user /\ procs[p].recipe
            /\ CopiesIn(Pair(p), favorites) = 0
            => /\ responder' = p
               /\ resp' = Message("Recipe not in favorites")
               /\ favorites' = favorites]_vars

\* C4: add and remove answer 404 when the lookup of the user id or of the
\* recipe id finds nothing, list answers 404 when the user id does not
\* resolve, and such a request leaves users, recipes and favorites alone.
C4_NotFoundChangesNothing ==
    [][/\ \A p \in Procs :
            /\ Steps(p)
            /\ procs[p].pc = "check"
            /\ ~procs[p].user \/ ~procs[p].recipe
            => /\ responder' = p
               /\ req'.op = procs[p].op
               /\ resp'.status = 404
               /\ UNCHANGED <<users, recipes, favorites>>
       /\ /\ Answers("get_favorites")
          /\ ~UserExists(req'.user_id)
          => /\ resp'.status = 404
             /\ UNCHANGED <<users, recipes, favorites>>]_vars

C4_Witness ==
    /\ responder # 0
    /\ req.op = "remove_from_favorites"
    /\ resp.status = 404
    /\ UserExists(req.user_id)
    /\ RecipeExists(req.recipe_id)
    /\ favorites # EmptyBag

\* C5: a register request creates exactly one new user when it finds the
\* username free, and answers 400 when it finds it taken, whatever the
\* password, leaving the users and the stored hash as they were.
C5_RegisterOrConflict ==
    [][\A p \in Procs :
         /\ /\ Steps(p)
            /\ procs[p].pc = "register_commit"
            => /\ users \subseteq users'
               /\ Cardinality(users' \ users) = 1
               /\ \A u \in users' \ users : u.username = procs[p].username
         /\ /\ Answers("register_user")
            /\ responder' = p
            /\ procs[p] = Idle
            => /\ \E u \in users : u.username = req'.username
               /\ resp'.status = 400
               /\ users' = users
         /\ /\ Answers("register_user")
            /\ responder' = p
            => resp'.status \in {200, 400}]_vars

\* C6: a login succeeds exactly when the username is registered and the
\* password is the one it was registered with; every failed login, unknown
\* username or wrong password alike, is the same 401 response.
C6_LoginIffRegisteredPassword ==
    [][Answers("login") =>
         /\ resp'.status = 200 <=>
              /\ req'.username \in DOMAIN registered
              /\ registered[req'.username] = req'.password
         /\ resp'.status # 200 =>
              resp' = [status |-> 401, detail |-> "Incorrect username or password"]
         /\ UNCHANGED <<users, registered>>]_vars

C6_Witness ==
    /\ responder # 0
    /\ req.op = "login"
    /\ resp.status = 401
    /\ req.username \in DOMAIN registered
    /\ registered[req.username] # req.password
    /\ \E name \in Usernames : name \notin DOMAIN registered
    /\ \E q \in Procs : procs[q].pc = "register_commit"

Contains(s, sub) ==
    \E i \in 0..(Len(s) - Len(sub)) : SubSeq(s, i + 1, i + Len(sub)) = sub

\* the rows the specification says a search returns
SubstringRows(table, q, category) ==
    {row \in table :
        /\ q # None => Contains(Lower(row.title), Lower(q))
        /\ category # None => row.category = category}

StrictlyDescending(body) ==
    \A i \in 1..(Len(body) - 1) : body[i].id > body[i + 1].id

\* C7: a search returns exactly the recipes whose title contains the query
\* text as a case-insensitive substring (when a query text is given) and whose
\* category equals the given category (when one is given), each once, by
\* strictly descending id.
C7_SearchIsSubstringMatch ==
    [][Answers("list_or_search_recipes") =>
         /\ StrictlyDescending(resp'.body)
         /\ {resp'.body[i] : i \in 1..Len(resp'.body)} =
              {[id |-> row.id] @@ assigned[row.id] :
                  row \in SubstringRows(recipes, req'.q, req'.category)}]_vars

\* C8: create stores the recipe under an id no existing recipe has and
\* answers with that id and the submitted fields; get-by-id of an assigned
\* id returns the fields submitted with it, whatever requests came between;
\* get-by-id of an id never assigned is NotFound.
C8_CreateThenGet ==
    [][/\ recipes' # recipes =>
            /\ recipes \subseteq recipes'
            /\ Cardinality(recipes' \ recipes) = 1
            /\ \A row \in recipes' \ recipes :
                  /\ row.id \notin {old.id : old \in recipes}
                  /\ row.id \notin DOMAIN assigned
       /\ Answers("create_recipe") =>
            /\ resp'.status = 201
            /\ resp'.body.id \in DOMAIN assigned
            /\ assigned[resp'.body.id] = req'.fields
            /\ resp'.body = [id |-> resp'.body.id] @@ req'.fields
       /\ Answers("get_recipe") =>
            IF req'.recipe_id \in DOMAIN assigned
            THEN /\ resp'.status = 200
                 /\ resp'.body = [id |-> req'.recipe_id] @@ assigned[req'.recipe_id]
            ELSE resp'.status = 404]_vars

C8_Witness ==
    /\ responder # 0
    /\ req.op = "get_recipe"
    /\ req.recipe_id = 1
    /\ Cardinality(recipes) = 2
    /\ resp.status = 200
    /\ resp.body.image_url # None
    /\ \E q \in Procs : procs[q].pc = "create_refresh"

\* C9: the check and the insert of add-favorite are separate steps: a
\* request that passed the membership check inserts its row at commit
\* whatever was committed in between, so two interleaved requests for the
\* same pair both insert and the pair is stored more than once.
C9_AddCommitInsertsUnchecked ==
    [][\A p \in Procs :
         /\ Steps(p)
         /\ procs[p].pc = "add_commit"
         => /\ responder' = p
            /\ resp' = Message("Recipe added to favorites")
            /\ CopiesIn(Pair(p), favorites') = CopiesIn(Pair(p), favorites) + 1
            /\ OthersKept(Pair(p))
            /\ \A q \in Procs \ {p} : procs'[q] = procs[q]]_vars

C9_Witness ==
    /\ responder # 0
    /\ req.op = "add_to_favorites"
    /\ resp = Message("Recipe added to favorites")
    /\ UserExists(req.user_id)
    /\ RecipeExists(req.recipe_id)
    /\ CopiesIn(<<req.user_id, req.recipe_id>>, favorites) >= 2

UsernamesUnique ==
    \A u1 \in users, u2 \in users : u1.username = u2.username => u1 = u2

\* C10: usernames stay unique when register requests interleave: a request
\* that passed the existence check and commits after another committed the
\* same username ends in a server error, not the 400 Conflict, and adds no
\* user.
C10_UniqueUsernamesUnderRace ==
    /\ []UsernamesUnique
    /\ [][\A p \in Procs :
             /\ Steps(p)
             /\ procs[p].pc = "register_commit"
             /\ \E u \in users : u.username = procs[p].username
             => /\ responder' = p
                /\ req'.op = "register_user"
                /\ resp'.status = 500
                /\ users' = users]_vars

C10_Witness ==
    /\ responder # 0
    /\ req.op = "register_user"
    /\ resp.status = 500
    /\ Cardinality({u \in users : u.username = req.username}) = 1
    /\ Cardinality(users) = 2

====
